---- MODULE Spec2Model ----
(***************************************************************************)
(* Model of evaluate_volatility.py: the process-wide rate gate             *)
(* (reset_rate_limit / check_rate_limit), the market selection, the        *)
(* pooled candlestick fetch, the volatility ranking and the spreadsheet    *)
(* publication.                                                            *)
(*                                                                         *)
(* Time is the wall clock read by time.time(), in seconds, advanced by a   *)
(* Tick action in steps of Granularity.  Every thread of the program is a  *)
(* "proc": proc 0 is the thread that runs main(), the others are callers   *)
(* of the gate (pool workers, one per submitted task).                     *)
(***************************************************************************)
EXTENDS Integers, Sequences, FiniteSets, TLC

\* ------------------------------------------------------------------ bounds
Granularity == 30   \* seconds the clock advances per Tick
MaxTime     == 90   \* no Tick past this time unless a sleeper still waits
NumCallers  == 2    \* concurrent callers of check_rate_limit in GateSpec
MaxCalls    == 2    \* calls each caller makes in GateSpec
MaxLen      == 3    \* longest candlestick series enumerated
MaxN        == 3    \* largest n handed to get_top_liquid_coins in SelectSpec
MaxTickers  == 3    \* longest ticker list enumerated in SelectSpec
max_workers == 2    \* ThreadPoolExecutor(max_workers=10), scaled down
TopCoins    == 3    \* get_top_liquid_coins(100), scaled down
TopK        == 2    \* the [:10] / [-10:] slices, scaled down
MaxRows     == 2    \* longest entry list handed to save_to_google_sheets

\* --------------------------------------------------------- program constants
RATE_LIMIT_PER_MINUTE == 1200
WEIGHT_THRESHOLD == (RATE_LIMIT_PER_MINUTE * 9) \div 10
Window == 60
TickerWeight == 40
KlinesWeight == 1

NoProc == -1
MainProc == 0
Callers == 1 .. NumCallers
\* the weights the program passes (1, 40) and one request as heavy as the
\* whole budget, so that a full window is reachable in a few calls
RequestWeights == {KlinesWeight, TickerWeight, WEIGHT_THRESHOLD}

\* ------------------------------------------------------------ pure helpers
Reverse(s) == [i \in 1 .. Len(s) |-> s[Len(s) + 1 - i]]

\* np.nan, and float comparison: every comparison with NaN is False
NaN == -1
IsNaN(x) == x = NaN
Lt(a, b) == ~IsNaN(a) /\ ~IsNaN(b) /\ a < b

\* list.sort / sorted() of CPython for fewer than 64 elements, on a sequence
\* of decorated entries [key |-> k, item |-> x]: count_run finds the leading
\* run (reversed in place when strictly descending), binarysort inserts the
\* remaining elements one by one by binary search; reverse=True reverses the
\* list before and after the ascending sort.
RunOk(s, j, descending) ==
  IF descending THEN Lt(s[j].key, s[j - 1].key) ELSE ~Lt(s[j].key, s[j - 1].key)

count_run(s) ==
  IF Len(s) < 2 THEN [n |-> Len(s), descending |-> FALSE]
  ELSE LET descending == Lt(s[2].key, s[1].key)
           n == CHOOSE m \in 2 .. Len(s) :
                  /\ \A j \in 3 .. m : RunOk(s, j, descending)
                  /\ m = Len(s) \/ ~RunOk(s, m + 1, descending)
       IN [n |-> n, descending |-> descending]

RECURSIVE BinarySearch(_, _, _, _)
BinarySearch(s, pivot, l, r) ==
  LET p == l + ((r - l) \div 2)
      l2 == IF Lt(pivot.key, s[p].key) THEN l ELSE p + 1
      r2 == IF Lt(pivot.key, s[p].key) THEN p ELSE r
  IN IF l2 < r2 THEN BinarySearch(s, pivot, l2, r2) ELSE l2

RECURSIVE binarysort(_, _)
binarysort(s, start) ==
  IF start > Len(s) THEN s
  ELSE LET l == BinarySearch(s, s[start], 1, start)
           moved == SubSeq(s, 1, l - 1) \o <<s[start]>> \o SubSeq(s, l, start - 1)
                      \o SubSeq(s, start + 1, Len(s))
       IN binarysort(moved, start + 1)

SortAscending(s) ==
  IF Len(s) < 2 THEN s
  ELSE LET run == count_run(s)
           head == SubSeq(s, 1, run.n)
           s1 == (IF run.descending THEN Reverse(head) ELSE head)
                   \o SubSeq(s, run.n + 1, Len(s))
       IN binarysort(s1, run.n + 1)

sorted(s, reverse) ==
  IF reverse THEN Reverse(SortAscending(Reverse(s))) ELSE SortAscending(s)

\* s[:k] and s[-k:] of a Python list, k >= 0
FirstK(s, k) == SubSeq(s, 1, IF k < Len(s) THEN k ELSE Len(s))
LastK(s, k) ==
  IF k = 0 \/ k >= Len(s) THEN s ELSE SubSeq(s, Len(s) - k + 1, Len(s))

\* all sequences over S of length at most k
SeqsUpTo(S, k) == UNION {[1 .. m -> S] : m \in 0 .. k}

\* --------------------------------------------------------------- the data
Max(a, b) == IF a >= b THEN a ELSE b

RECURSIVE SumSeq(_)
SumSeq(s) == IF s = <<>> THEN 0 ELSE s[Len(s)] + SumSeq(SubSeq(s, 1, Len(s) - 1))

\* A symbol is the sequence of the currency codes it is spelled with.
QuoteSuffix == <<"USDT">>
SymbolPool == {<<"BTC", "USDT">>, <<"ETH", "USDT">>, <<"SOL", "USDT">>,
               <<"XRP", "USDT">>, <<"USDT", "EUR">>}

\* str.endswith
EndsWith(s, suffix) ==
  /\ Len(s) >= Len(suffix)
  /\ SubSeq(s, Len(s) - Len(suffix) + 1, Len(s)) = suffix

UsdtSymbols == {s \in SymbolPool : EndsWith(s, QuoteSuffix)}

\* quoteVolume is a string of decimal digits; float() gives its value
Volumes == {<<9>>, <<1, 0>>}

RECURSIVE float(_)
float(digits) ==
  IF digits = <<>> THEN 0
  ELSE 10 * float(SubSeq(digits, 1, Len(digits) - 1)) + digits[Len(digits)]

Tickers == [symbol : SymbolPool, quoteVolume : Volumes]

\* the exchange lists every symbol once
DistinctSymbols(ts) ==
  \A i, j \in 1 .. Len(ts) : ts[i].symbol = ts[j].symbol => i = j

TickerLists == {ts \in SeqsUpTo(Tickers, MaxTickers) : DistinctSymbols(ts)}

Ticker(sym, vol) == [symbol |-> sym, quoteVolume |-> vol]

\* the ticker lists main() is run on
MainTickerLists ==
  { <<Ticker(<<"BTC", "USDT">>, <<9>>), Ticker(<<"USDT", "EUR">>, <<1, 0>>),
      Ticker(<<"ETH", "USDT">>, <<1, 0>>), Ticker(<<"SOL", "USDT">>, <<9>>)>>,
    <<Ticker(<<"USDT", "EUR">>, <<9>>), Ticker(<<"SOL", "USDT">>, <<9>>)>>,
    <<Ticker(<<"USDT", "EUR">>, <<9>>)>> }

\* get_top_liquid_coins lines 87-89
IsUsdtPairContains(ticker) ==
  \E i \in 1 .. Len(ticker.symbol) : <<ticker.symbol[i]>> = QuoteSuffix

IsUsdtPair(ticker) == EndsWith(ticker.symbol, QuoteSuffix)

usdt_pairs(ts) == SelectSeq(ts, IsUsdtPair)

sorted_tickers(ts) ==
  LET pairs == usdt_pairs(ts)
  IN sorted([i \in 1 .. Len(pairs) |->
               [key |-> float(pairs[i].quoteVolume), item |-> pairs[i]]], TRUE)

get_top_liquid_coins(ts, k) ==
  LET top == FirstK(sorted_tickers(ts), k)
  IN [i \in 1 .. Len(top) |-> top[i].item.symbol]

\* A DataFrame is its close column; fetch_candlestick_data returns one, or
\* None.  Closes are powers of two, so that a log return is an integer number
\* of ln 2; a series starts at 1 (only the ratios of closes are used).
Prices == {1, 2}
Series == {s \in SeqsUpTo(Prices, MaxLen) : s = <<>> \/ s[1] = 1}
None == [absent |-> TRUE, close |-> <<>>]
DataFrame(rows) == [absent |-> FALSE, close |-> rows]

RECURSIVE Log2(_)
Log2(x) == IF x <= 1 THEN 0 ELSE 1 + Log2(x \div 2)

\* df['log_return'] without its leading NaN (Series.std skips NaN)
log_return(close) ==
  [i \in 1 .. Len(close) - 1 |-> Log2(close[i + 1]) - Log2(close[i])]

\* Series.std() is the sample standard deviation (ddof = 1): NaN for fewer
\* than two values.  The model returns 60 times the sample variance in units
\* of (ln 2)^2, an integer for up to 6 values; the code's
\* std * sqrt(1440) is an increasing function of it.
std(r) ==
  LET m == Len(r)
      squares == SumSeq([i \in 1 .. m |-> r[i] * r[i]])
  IN IF m < 2 THEN NaN
     ELSE (60 * (m * squares - SumSeq(r) * SumSeq(r))) \div (m * (m - 1))

\* calculate_volatility lines 119-125
calculate_volatility(df) ==
  IF df.absent \/ df.close = <<>> THEN NaN ELSE std(log_return(df.close))

\* main lines 176-180: the entries that are scored
IsPresent(result) == ~result.df.absent

scored(res) ==
  LET kept == SelectSeq(res, IsPresent)
  IN [i \in 1 .. Len(kept) |->
        [symbol |-> kept[i].symbol, volatility |-> calculate_volatility(kept[i].df)]]

\* main line 183
ranked(res) ==
  LET entries == scored(res)
      out == sorted([i \in 1 .. Len(entries) |->
                       [key |-> entries[i].volatility, item |-> entries[i]]], TRUE)
  IN [i \in 1 .. Len(out) |-> out[i].item]

\* main lines 184-185
NotNaN(entry) == ~IsNaN(entry.volatility)

bottom_slice_wide(vols) == SelectSeq(LastK(vols, TopK + 1), NotNaN)

top_slice(vols) == SelectSeq(FirstK(vols, TopK), NotNaN)

bottom_slice(vols) == SelectSeq(LastK(vols, TopK), NotNaN)

\* the worksheet: a header row and data rows
Headers == [kind |-> "header", timestamp |-> 0, symbol |-> <<>>, volatility |-> 0]
Row(ts, entry) ==
  [kind |-> "data", timestamp |-> ts, symbol |-> entry.symbol,
   volatility |-> entry.volatility]

PriorStamp == 0 - Granularity
PriorSheet ==
  <<Headers, Row(PriorStamp, [symbol |-> <<"BTC", "USDT">>, volatility |-> 30])>>
PriorSheets == {<<>>, PriorSheet}

\* save_to_google_sheets lines 135-143
kept_rows(rows) == rows

cleared(rows) == <<>>

appended(rows, ts, entries) ==
  rows \o <<Headers>> \o [i \in 1 .. Len(entries) |-> Row(ts, entries[i])]

\* the entry lists save_to_google_sheets is called with
Entries == [symbol : {<<"BTC", "USDT">>, <<"ETH", "USDT">>}, volatility : {0, 30}]
EntryLists == SeqsUpTo(Entries, MaxRows)

\* the threads: proc 0 runs main(), procs 1.. are gate callers or pool tasks
MaxTasks == Cardinality(UsdtSymbols)
Procs == 0 .. Max(NumCallers, MaxTasks)
Tasks == 1 .. MaxTasks

VARIABLES
  now,              \* time.time()
  current_weight,   \* global current_weight
  last_reset_time,  \* global last_reset_time
  lock,             \* holder of `lock`, or NoProc
  pc,               \* per proc: position inside check_rate_limit
  request_weight,   \* per proc: argument of check_rate_limit
  current_time,     \* per proc: local of reset_rate_limit
  wake,             \* per proc: time at which time.sleep returns
  calls,            \* per proc: calls of check_rate_limit begun
  callFull,         \* per proc: the window was full when the call began
  callWindow,       \* per proc: last_reset_time when the call began
  n,                \* argument of get_top_liquid_coins
  tickers,          \* what client.get_ticker() returns
  mainPc,           \* position of main()
  top_coins,        \* main: symbols
  task,             \* per submitted future: none / pending / running / done
  future,           \* per submitted future: its outcome
  finished,         \* futures in the order they completed
  results,          \* main: results
  volatilities,     \* main: volatilities, after the sort
  top_10_volatile,  \* main: top_10_volatile
  bottom_10_volatile, \* main: bottom_10_volatile
  sheet,            \* rows of the Volatile_Coins worksheet
  sheet0,           \* rows of the worksheet before save_to_google_sheets
  savePc            \* position inside save_to_google_sheets

gateVars == <<now, current_weight, last_reset_time, lock, pc, request_weight,
              current_time, wake, calls, callFull, callWindow>>

pipeVars == <<n, tickers, mainPc, top_coins, task, future, finished, results,
              volatilities, top_10_volatile, bottom_10_volatile, sheet, sheet0,
              savePc>>

vars == <<gateVars, pipeVars>>

\* ------------------------------------------------------------ the pipeline
NoFuture == [raised |-> FALSE, value |-> [symbol |-> <<>>, df |-> None]]

PipeIdle ==
  /\ n = 0
  /\ tickers = <<>>
  /\ mainPc = "off"
  /\ top_coins = <<>>
  /\ task = [i \in Tasks |-> "none"]
  /\ future = [i \in Tasks |-> NoFuture]
  /\ finished = <<>>
  /\ results = <<>>
  /\ volatilities = <<>>
  /\ top_10_volatile = <<>>
  /\ bottom_10_volatile = <<>>
  /\ sheet = <<>>
  /\ sheet0 = <<>>
  /\ savePc = "idle"

\* ------------------------------------------------------------ the rate gate
GateInit ==
  /\ now = 0
  /\ current_weight = 0
  /\ last_reset_time = 0
  /\ lock = NoProc
  /\ pc = [p \in Procs |-> "idle"]
  /\ request_weight = [p \in Procs |-> 0]
  /\ current_time = [p \in Procs |-> 0]
  /\ wake = [p \in Procs |-> 0]
  /\ calls = [p \in Procs |-> 0]
  /\ callFull = [p \in Procs |-> FALSE]
  /\ callWindow = [p \in Procs |-> 0]

\* The clock advances.  Past MaxTime it advances only while a thread is
\* still inside time.sleep, so that every sleep ends.
Tick ==
  /\ UNCHANGED pipeVars
  /\ \/ now + Granularity <= MaxTime
     \/ \E p \in Procs : pc[p] = "reset_check" /\ wake[p] > now
  /\ now' = now + Granularity
  /\ UNCHANGED <<current_weight, last_reset_time, lock, pc, request_weight,
                 current_time, wake, calls, callFull, callWindow>>

\* check_rate_limit(weight) is entered: the next statement is the call of
\* reset_rate_limit() at line 72.
BeginCall(p, weight) ==
  /\ pc[p] = "idle"
  /\ pc' = [pc EXCEPT ![p] = "reset_check"]
  /\ request_weight' = [request_weight EXCEPT ![p] = weight]
  /\ wake' = [wake EXCEPT ![p] = 0]
  /\ calls' = [calls EXCEPT ![p] = @ + 1]
  /\ callFull' = [callFull EXCEPT ![p] = current_weight >= WEIGHT_THRESHOLD]
  /\ callWindow' = [callWindow EXCEPT ![p] = last_reset_time]
  /\ UNCHANGED <<now, current_weight, last_reset_time, lock, current_time>>

\* Where reset_rate_limit returns to: line 73 (the lock is still to be taken)
\* when called from line 72, line 80 when called from line 79 under the lock.
AfterReset(p) == IF lock = p THEN "add" ELSE "gate_lock"

\* reset_rate_limit lines 62-63: read the clock, test the window, without the
\* lock.  When reached from line 79, time.sleep (line 78) has to return first.
ResetCheck(p) ==
  /\ UNCHANGED pipeVars
  /\ pc[p] = "reset_check"
  /\ now >= wake[p]
  /\ current_time' = [current_time EXCEPT ![p] = now]
  /\ pc' = [pc EXCEPT ![p] = IF now - last_reset_time >= Window
                               THEN "reset_lock" ELSE AfterReset(p)]
  /\ UNCHANGED <<now, current_weight, last_reset_time, lock, request_weight,
                 wake, calls, callFull, callWindow>>

\* reset_rate_limit lines 64-67: take the lock (threading.Lock is not
\* reentrant), zero the counter, start the window at the time read at line 62,
\* release the lock.
ResetApply(p) ==
  /\ UNCHANGED pipeVars
  /\ pc[p] = "reset_lock"
  /\ lock = NoProc
  /\ current_weight' = 0
  /\ last_reset_time' = current_time[p]
  /\ pc' = [pc EXCEPT ![p] = AfterReset(p)]
  /\ UNCHANGED <<now, lock, request_weight, current_time, wake, calls,
                 callFull, callWindow>>

\* check_rate_limit lines 73-78: take the lock and test the budget.  Over the
\* threshold with time left in the window, the thread sleeps holding the lock
\* and then calls reset_rate_limit (line 79); otherwise it goes on to line 80.
sleep_time == Window - (now - last_reset_time)

GateAcquire(p) ==
  /\ UNCHANGED pipeVars
  /\ pc[p] = "gate_lock"
  /\ lock = NoProc
  /\ lock' = p
  /\ IF current_weight + request_weight[p] > WEIGHT_THRESHOLD /\ sleep_time > 0
       THEN /\ wake' = [wake EXCEPT ![p] = now + sleep_time]
            /\ pc' = [pc EXCEPT ![p] = "reset_check"]
       ELSE /\ pc' = [pc EXCEPT ![p] = "add"]
            /\ UNCHANGED wake
  /\ UNCHANGED <<now, current_weight, last_reset_time, request_weight,
                 current_time, calls, callFull, callWindow>>

\* check_rate_limit line 80 and the end of the with block: add the weight,
\* release the lock, return.
GateAdd(p) ==
  /\ UNCHANGED pipeVars
  /\ pc[p] = "add"
  /\ lock = p
  /\ current_weight' = current_weight + request_weight[p]
  /\ lock' = NoProc
  /\ pc' = [pc EXCEPT ![p] = "ret"]
  /\ UNCHANGED <<now, last_reset_time, request_weight, current_time, wake,
                 calls, callFull, callWindow>>

GateStep(p) ==
  \/ ResetCheck(p)
  \/ ResetApply(p)
  \/ GateAcquire(p)
  \/ GateAdd(p)

\* check_rate_limit has returned and its caller goes on: the locals of the
\* call are gone.
ExitCall(p) ==
  /\ pc[p] = "ret"
  /\ pc' = [pc EXCEPT ![p] = "idle"]
  /\ request_weight' = [request_weight EXCEPT ![p] = 0]
  /\ current_time' = [current_time EXCEPT ![p] = 0]
  /\ wake' = [wake EXCEPT ![p] = 0]
  /\ callFull' = [callFull EXCEPT ![p] = FALSE]
  /\ callWindow' = [callWindow EXCEPT ![p] = 0]
  /\ UNCHANGED <<now, current_weight, last_reset_time, lock, calls>>

\* A caller of the gate: any thread calling check_rate_limit with one of the
\* request weights, then going on after the call returned.
Call(p) ==
  /\ calls[p] < MaxCalls
  /\ \E weight \in RequestWeights : BeginCall(p, weight)
  /\ UNCHANGED pipeVars

Return(p) ==
  /\ UNCHANGED pipeVars
  /\ ExitCall(p)

GateNext ==
  \/ Tick
  \/ \E p \in Callers : Call(p)
  \/ \E p \in Callers : GateStep(p)
  \/ \E p \in Callers : Return(p)

GateSpecInit ==
  /\ GateInit
  /\ PipeIdle

GateSpec == GateSpecInit /\ [][GateNext]_vars

\* The scheduler runs every runnable thread and the clock does not stop.
FairGateSpec ==
  /\ GateSpec
  /\ WF_vars(Tick)
  /\ \A p \in Callers : WF_vars(GateStep(p)) /\ WF_vars(Return(p))

\* get_top_liquid_coins line 84: check_rate_limit(40)
MainSelectCall ==
  /\ mainPc = "start"
  /\ BeginCall(MainProc, TickerWeight)
  /\ mainPc' = "select_gate"
  /\ UNCHANGED <<n, tickers, top_coins, task, future, finished, results,
                 volatilities, top_10_volatile, bottom_10_volatile, sheet,
                 sheet0, savePc>>

\* get_top_liquid_coins lines 85-91, once the gate call returned: the ticker
\* request either raises (the error propagates out of main) or answers.
MainSelect ==
  /\ mainPc = "select_gate"
  /\ ExitCall(MainProc)
  /\ \/ mainPc' = "failed_select" /\ UNCHANGED top_coins
     \/ mainPc' = "selected" /\ top_coins' = get_top_liquid_coins(tickers, n)
  /\ UNCHANGED <<n, tickers, task, future, finished, results, volatilities,
                 top_10_volatile, bottom_10_volatile, sheet, sheet0, savePc>>

\* main lines 169-171: one future per symbol, queued in submission order
MainSubmit ==
  /\ mainPc = "selected"
  /\ mainPc' = "collect"
  /\ task' = [i \in Tasks |-> IF i <= Len(top_coins) THEN "pending" ELSE "none"]
  /\ results' = <<>>
  /\ UNCHANGED gateVars
  /\ UNCHANGED <<n, tickers, top_coins, future, finished, volatilities,
                 top_10_volatile, bottom_10_volatile, sheet, sheet0, savePc>>

Running == {i \in Tasks : task[i] = "running"}

\* A pool worker takes the oldest queued future and enters
\* fetch_candlestick_data, whose first statement is check_rate_limit(1).
TaskStart(i) ==
  /\ mainPc = "collect"
  /\ task[i] = "pending"
  /\ \A j \in Tasks : j < i => task[j] # "pending"
  /\ Cardinality(Running) < max_workers
  /\ task' = [task EXCEPT ![i] = "running"]
  /\ BeginCall(i, KlinesWeight)
  /\ UNCHANGED <<n, tickers, mainPc, top_coins, future, finished, results,
                 volatilities, top_10_volatile, bottom_10_volatile, sheet,
                 sheet0, savePc>>

\* fetch_candlestick_data lines 95-117: what the function hands to its
\* future when the body raised (the except clause) or produced rows.
uncaught(symbol, raised, rows) ==
  [raised |-> raised,
   value |-> [symbol |-> symbol, df |-> IF raised THEN None ELSE DataFrame(rows)]]

fetch_candlestick_data(symbol, raised, rows) ==
  [raised |-> FALSE,
   value |-> [symbol |-> symbol, df |-> IF raised THEN None ELSE DataFrame(rows)]]

\* fetch_candlestick_data lines 97-117, once the gate call returned: the
\* request or the conversion raises, or the rows arrive.
TaskFetch(i) ==
  /\ task[i] = "running"
  /\ ExitCall(i)
  /\ \E raised \in BOOLEAN :
       \E rows \in IF raised THEN {<<>>} ELSE Series :
         future' = [future EXCEPT ![i] =
                      fetch_candlestick_data(top_coins[i], raised, rows)]
  /\ task' = [task EXCEPT ![i] = "done"]
  /\ finished' = Append(finished, i)
  /\ UNCHANGED <<n, tickers, mainPc, top_coins, results, volatilities,
                 top_10_volatile, bottom_10_volatile, sheet, sheet0, savePc>>

\* main lines 172-173: the future whose result is appended next
next_completed ==
  IF Len(results) < Len(finished) THEN finished[Len(results) + 1]
  ELSE Len(results) + 1

next_future == Len(results) + 1

\* main lines 172-173: future.result() blocks until that future is done, and
\* raises what the task raised.
MainCollect ==
  /\ mainPc = "collect"
  /\ Len(results) < Len(top_coins)
  /\ task[next_future] = "done"
  /\ IF future[next_future].raised
       THEN mainPc' = "failed_collect" /\ UNCHANGED results
       ELSE mainPc' = mainPc /\ results' = Append(results, future[next_future].value)
  /\ UNCHANGED gateVars
  /\ UNCHANGED <<n, tickers, top_coins, task, future, finished, volatilities,
                 top_10_volatile, bottom_10_volatile, sheet, sheet0, savePc>>

\* main line 170, the end of the with block: shutdown(wait=True)
MainJoin ==
  /\ mainPc = "collect"
  /\ Len(results) = Len(top_coins)
  /\ \A i \in Tasks : task[i] \in {"none", "done"}
  /\ mainPc' = "collected"
  /\ UNCHANGED gateVars
  /\ UNCHANGED <<n, tickers, top_coins, task, future, finished, results,
                 volatilities, top_10_volatile, bottom_10_volatile, sheet,
                 sheet0, savePc>>

\* main lines 175-185
MainRank ==
  /\ mainPc = "collected"
  /\ volatilities' = ranked(results)
  /\ top_10_volatile' = top_slice(ranked(results))
  /\ bottom_10_volatile' = bottom_slice(ranked(results))
  /\ mainPc' = "ranked"
  /\ UNCHANGED gateVars
  /\ UNCHANGED <<n, tickers, top_coins, task, future, finished, results,
                 sheet, sheet0, savePc>>

\* main lines 188-189: save_to_google_sheets is called for a non-empty top
MainPublish ==
  /\ mainPc = "ranked"
  /\ IF top_10_volatile # <<>>
       THEN mainPc' = "saving" /\ savePc' = "auth" /\ sheet0' = sheet
       ELSE mainPc' = "plot" /\ UNCHANGED <<savePc, sheet0>>
  /\ UNCHANGED gateVars
  /\ UNCHANGED <<n, tickers, top_coins, task, future, finished, results,
                 volatilities, top_10_volatile, bottom_10_volatile, sheet>>

\* save_to_google_sheets lines 130-132: authenticate, open the worksheet
SaveAuth ==
  /\ savePc = "auth"
  /\ \/ savePc' = "clear"
     \/ savePc' = "raised"
  /\ UNCHANGED gateVars
  /\ UNCHANGED <<n, tickers, mainPc, top_coins, task, future, finished,
                 results, volatilities, top_10_volatile, bottom_10_volatile,
                 sheet, sheet0>>

\* save_to_google_sheets line 135: worksheet.clear()
SaveClear ==
  /\ savePc = "clear"
  /\ \/ savePc' = "append" /\ sheet' = cleared(sheet)
     \/ savePc' = "raised" /\ UNCHANGED sheet
  /\ UNCHANGED gateVars
  /\ UNCHANGED <<n, tickers, mainPc, top_coins, task, future, finished,
                 results, volatilities, top_10_volatile, bottom_10_volatile,
                 sheet0>>

\* save_to_google_sheets lines 138-143: stamp the rows, append_rows
SaveAppend ==
  /\ savePc = "append"
  /\ \/ savePc' = "ok" /\ sheet' = appended(sheet, now, top_10_volatile)
     \/ savePc' = "raised" /\ UNCHANGED sheet
  /\ UNCHANGED gateVars
  /\ UNCHANGED <<n, tickers, mainPc, top_coins, task, future, finished,
                 results, volatilities, top_10_volatile, bottom_10_volatile,
                 sheet0>>

\* main line 189 returns, or save_to_google_sheets re-raised (line 147)
MainSaved ==
  /\ mainPc = "saving"
  /\ savePc \in {"ok", "raised"}
  /\ mainPc' = IF savePc = "ok" THEN "plot" ELSE "failed_save"
  /\ UNCHANGED gateVars
  /\ UNCHANGED <<n, tickers, top_coins, task, future, finished, results,
                 volatilities, top_10_volatile, bottom_10_volatile, sheet,
                 sheet0, savePc>>

\* main lines 192-199: the plots are written, the script ends
MainPlot ==
  /\ mainPc = "plot"
  /\ mainPc' = "done"
  /\ UNCHANGED gateVars
  /\ UNCHANGED <<n, tickers, top_coins, task, future, finished, results,
                 volatilities, top_10_volatile, bottom_10_volatile, sheet,
                 sheet0, savePc>>

\* ------------------------------------------------------ the specifications
\* get_top_liquid_coins(n) on any ticker list
SelectInit ==
  /\ GateInit
  /\ n \in 0 .. MaxN
  /\ tickers \in TickerLists
  /\ mainPc = "start"
  /\ top_coins = <<>>
  /\ task = [i \in Tasks |-> "none"]
  /\ future = [i \in Tasks |-> NoFuture]
  /\ finished = <<>>
  /\ results = <<>>
  /\ volatilities = <<>>
  /\ top_10_volatile = <<>>
  /\ bottom_10_volatile = <<>>
  /\ sheet = <<>>
  /\ sheet0 = <<>>
  /\ savePc = "idle"

SelectNext ==
  \/ Tick
  \/ MainSelectCall
  \/ GateStep(MainProc)
  \/ MainSelect

SelectSpec == SelectInit /\ [][SelectNext]_vars

\* main(), run once from the state the module is loaded in
MainInit ==
  /\ GateInit
  /\ n = TopCoins
  /\ tickers \in MainTickerLists
  /\ mainPc = "start"
  /\ top_coins = <<>>
  /\ task = [i \in Tasks |-> "none"]
  /\ future = [i \in Tasks |-> NoFuture]
  /\ finished = <<>>
  /\ results = <<>>
  /\ volatilities = <<>>
  /\ top_10_volatile = <<>>
  /\ bottom_10_volatile = <<>>
  /\ sheet = PriorSheet
  /\ sheet0 = <<>>
  /\ savePc = "idle"

MainNext ==
  \/ Tick
  \/ MainSelectCall
  \/ MainSelect
  \/ MainSubmit
  \/ \E i \in Tasks : TaskStart(i)
  \/ \E p \in Procs : GateStep(p)
  \/ \E i \in Tasks : TaskFetch(i)
  \/ MainCollect
  \/ MainJoin
  \/ MainRank
  \/ MainPublish
  \/ SaveAuth
  \/ SaveClear
  \/ SaveAppend
  \/ MainSaved
  \/ MainPlot

MainSpec == MainInit /\ [][MainNext]_vars

\* main lines 175-185 on any collected results: the symbols in submission
\* order, each with None or a DataFrame
RankSymbols == <<<<"BTC", "USDT">>, <<"ETH", "USDT">>, <<"SOL", "USDT">>,
                 <<"XRP", "USDT">>>>
Frames == {None} \cup {DataFrame(rows) : rows \in Series}
Collected(dfs) ==
  [i \in 1 .. Len(dfs) |-> [symbol |-> RankSymbols[i], df |-> dfs[i]]]

RankInit ==
  /\ GateInit
  /\ n = TopCoins
  /\ tickers = <<>>
  /\ mainPc = "collected"
  /\ \E m \in 0 .. Len(RankSymbols) :
       \E dfs \in [1 .. m -> Frames] : results = Collected(dfs)
  /\ top_coins = [i \in 1 .. Len(results) |-> results[i].symbol]
  /\ task = [i \in Tasks |-> IF i <= Len(results) THEN "done" ELSE "none"]
  /\ future = [i \in Tasks |-> IF i <= Len(results)
                                 THEN [raised |-> FALSE, value |-> results[i]]
                                 ELSE NoFuture]
  /\ finished = [i \in 1 .. Len(results) |-> i]
  /\ volatilities = <<>>
  /\ top_10_volatile = <<>>
  /\ bottom_10_volatile = <<>>
  /\ sheet = <<>>
  /\ sheet0 = <<>>
  /\ savePc = "idle"

RankNext == MainRank

RankSpec == RankInit /\ [][RankNext]_vars

\* save_to_google_sheets called with any entry list on any prior worksheet
SheetInit ==
  /\ GateInit
  /\ n = 0
  /\ tickers = <<>>
  /\ mainPc = "off"
  /\ top_coins = <<>>
  /\ task = [i \in Tasks |-> "none"]
  /\ future = [i \in Tasks |-> NoFuture]
  /\ finished = <<>>
  /\ results = <<>>
  /\ volatilities = <<>>
  /\ top_10_volatile \in EntryLists
  /\ bottom_10_volatile = <<>>
  /\ sheet \in PriorSheets
  /\ sheet0 = sheet
  /\ savePc = "auth"

SheetNext ==
  \/ Tick
  \/ SaveAuth
  \/ SaveClear
  \/ SaveAppend

SheetSpec == SheetInit /\ [][SheetNext]_vars

\* ------------------------------------------------------ claims on the gate
Returns(p) == pc[p] = "add" /\ pc'[p] = "ret"
Resets(p) == pc[p] = "reset_lock" /\ pc'[p] # "reset_lock"

\* C1: a check_rate_limit(1) call begun when the window already held 1080
\* weight does not return before 60 seconds have passed since the start of
\* that window.
C1_BlocksUntilWindowReset ==
  [][\A p \in Procs :
       (Returns(p) /\ callFull[p] /\ request_weight[p] = KlinesWeight)
         => now' - callWindow[p] >= Window]_vars

\* C2: every call of check_rate_limit eventually returns.
C2_EveryCallReturns ==
  \A p \in Callers : (pc[p] = "reset_check") ~> (pc[p] = "ret")

\* C3: right after a call of check_rate_limit returns, current_weight does
\* not exceed WEIGHT_THRESHOLD.
C3_ConsumedWithinThreshold ==
  [][\A p \in Procs : Returns(p) => current_weight' <= WEIGHT_THRESHOLD]_vars

\* C10: last_reset_time never decreases, and a reset is applied only to a
\* window that is at least 60 seconds old (so no reset discards the weight
\* added to a window a more recent reset began, and no elapsed window is
\* reset twice).
C10_WindowAccounting ==
  [][/\ last_reset_time' >= last_reset_time
     /\ \A p \in Procs : Resets(p) => now - last_reset_time >= Window]_vars

\* -------------------------------------------------- claims on the pipeline
AfterCollect == {"collected", "ranked", "saving", "plot", "done", "failed_save"}
AfterRank == {"ranked", "saving", "plot", "done", "failed_save"}
RankedSymbols == {volatilities[j].symbol : j \in 1 .. Len(volatilities)}

\* C4: whatever fails inside a fetch task, the task yields (symbol, None)
\* instead of raising; the collection is never aborted by a task, holds one
\* entry per submitted symbol once it is over, and a symbol with an absent
\* series is not scored.
C4_FetchFailureIsolated ==
  /\ mainPc # "failed_collect"
  /\ \A i \in Tasks :
       task[i] = "done" => ~future[i].raised /\ future[i].value.symbol = top_coins[i]
  /\ mainPc \in AfterCollect =>
       /\ Len(results) = Len(top_coins)
       /\ \A i \in 1 .. Len(results) : results[i].symbol = top_coins[i]
  /\ mainPc \in AfterRank =>
       \A i \in 1 .. Len(results) :
         results[i].df.absent => results[i].symbol \notin RankedSymbols

C4_Witness ==
  /\ mainPc = "ranked"
  /\ \E i, j \in 1 .. Len(results) :
       /\ results[i].df.absent
       /\ ~results[j].df.absent
       /\ results[j].symbol \in RankedSymbols

\* C5: the i-th collected result is the result of the i-th submitted symbol
\* whatever the completion order, at most max_workers tasks run at a time,
\* and nothing downstream starts before every task has finished.
C5_SubmissionOrderCollection ==
  /\ Cardinality(Running) <= max_workers
  /\ \A i \in 1 .. Len(results) :
       results[i] = future[i].value /\ results[i].symbol = top_coins[i]
  /\ mainPc \in AfterCollect =>
       /\ Len(results) = Len(top_coins)
       /\ \A i \in Tasks : task[i] \in {"none", "done"}

C5_Witness ==
  /\ mainPc = "collected"
  /\ Len(results) >= 2
  /\ finished[1] # 1
  /\ results[1].df # results[2].df

\* C6: a symbol whose series is absent or empty is never an element of the
\* sorted sequence; the sorted sequence holds exactly the symbols with a
\* present, non-empty series, in descending score order.
Usable(result) == ~result.df.absent /\ result.df.close # <<>>

C6_RankingExcludesUnusable ==
  mainPc = "ranked" =>
    /\ \A j \in 1 .. Len(volatilities) :
         \E i \in 1 .. Len(results) :
           results[i].symbol = volatilities[j].symbol /\ Usable(results[i])
    /\ \A i \in 1 .. Len(results) :
         Usable(results[i]) => results[i].symbol \in RankedSymbols
    /\ \A j, k \in 1 .. Len(volatilities) :
         j < k => ~Lt(volatilities[j].volatility, volatilities[k].volatility)

\* C7: when 2*k <= the number of ranked entries, top and bottom share no
\* entry; neither ever holds an entry with an undefined score.
C7_TopBottomDisjoint ==
  mainPc = "ranked" =>
    /\ 2 * TopK <= Len(volatilities) =>
         \A i \in 1 .. Len(top_10_volatile) :
           \A j \in 1 .. Len(bottom_10_volatile) :
             top_10_volatile[i] # bottom_10_volatile[j]
    /\ \A i \in 1 .. Len(top_10_volatile) : ~IsNaN(top_10_volatile[i].volatility)
    /\ \A j \in 1 .. Len(bottom_10_volatile) :
         ~IsNaN(bottom_10_volatile[j].volatility)

C7_Witness ==
  /\ mainPc = "ranked"
  /\ 2 * TopK <= Len(volatilities)
  /\ \E j \in 1 .. Len(volatilities) : IsNaN(volatilities[j].volatility)
  /\ top_10_volatile # <<>>
  /\ bottom_10_volatile # <<>>

\* C8: get_top_liquid_coins(n) returns at most n symbols, all ending with
\* USDT, in descending order of float(quoteVolume) with ties in ticker order;
\* no USDT ticker left out has a higher volume than a returned one; exactly
\* one gate call, of weight 40, came before the ticker request.
TickerIndex(sym) == CHOOSE i \in 1 .. Len(tickers) : tickers[i].symbol = sym
VolumeOf(sym) == float(tickers[TickerIndex(sym)].quoteVolume)
Selected == {top_coins[i] : i \in 1 .. Len(top_coins)}

C8_SelectTop ==
  mainPc = "selected" =>
    /\ Len(top_coins) <= n
    /\ \A i \in 1 .. Len(top_coins) :
         /\ EndsWith(top_coins[i], QuoteSuffix)
         /\ \E j \in 1 .. Len(tickers) : tickers[j].symbol = top_coins[i]
    /\ \A i, j \in 1 .. Len(top_coins) :
         i < j =>
           \/ VolumeOf(top_coins[i]) > VolumeOf(top_coins[j])
           \/ /\ VolumeOf(top_coins[i]) = VolumeOf(top_coins[j])
              /\ TickerIndex(top_coins[i]) < TickerIndex(top_coins[j])
    /\ \A j \in 1 .. Len(tickers) :
         (EndsWith(tickers[j].symbol, QuoteSuffix) /\ tickers[j].symbol \notin Selected)
           => \A s \in Selected : float(tickers[j].quoteVolume) <= VolumeOf(s)
    /\ calls[MainProc] = 1
    /\ current_weight = TickerWeight

C8_Witness ==
  /\ mainPc = "selected"
  /\ n = 2
  /\ Len(top_coins) = 2
  /\ Len(tickers) = 3
  /\ \A j \in 1 .. Len(tickers) : EndsWith(tickers[j].symbol, QuoteSuffix)
  /\ top_coins[1] = tickers[3].symbol
  /\ VolumeOf(top_coins[1]) > VolumeOf(top_coins[2])

\* C9: save_to_google_sheets clears the worksheet before it appends, and
\* after a successful call the worksheet holds the header row followed by
\* exactly one row per entry (the header alone for an empty list) and no row
\* of a prior run.
C9_PublishOverwrites ==
  /\ savePc = "append" => sheet = <<>>
  /\ savePc = "ok" =>
       /\ Len(sheet) = 1 + Len(top_10_volatile)
       /\ sheet[1] = Headers
       /\ \A i \in 1 .. Len(top_10_volatile) :
            /\ sheet[i + 1].kind = "data"
            /\ sheet[i + 1].symbol = top_10_volatile[i].symbol
            /\ sheet[i + 1].volatility = top_10_volatile[i].volatility
            /\ sheet[i + 1].timestamp # PriorStamp

C9_Witness ==
  /\ savePc = "ok"
  /\ top_10_volatile = <<>>
  /\ sheet0 = PriorSheet
  /\ sheet = <<Headers>>

====
